---- MODULE Spec2Model ----
(***************************************************************************)
(* Model of rosbag_parser/main.py: start_routine downloads the .bag files  *)
(* of a bucket, process_bag_files extracts the image records of a time     *)
(* window into a tree of .png files, store_files_to_s3 replaces the        *)
(* destination bucket by that tree.                                        *)
(*                                                                         *)
(* Strings are sequences of one-character strings, so that lower(),        *)
(* splitext(), replace(), strftime() and sorted() are computed, not        *)
(* assumed.  A number of seconds since the epoch is the pair               *)
(* <<day, second of day>> (secs = 86400 * day + second of day): the        *)
(* far-future sentinel of process_bag_files needs more than 31 bits.       *)
(***************************************************************************)
EXTENDS Integers, Sequences, FiniteSets, TLC

(* ------------------------------------------------------------------ *)
(* State                                                               *)
(* ------------------------------------------------------------------ *)

VARIABLES
  routine,    \* TRUE when start_routine runs, FALSE when process_bag_files is called alone
  pc,         \* where the program stands: "list", "download", "validate", "open", "read",
              \* "return" (process_bag_files has returned), "upload", "finished", or
              \* "crashed" on an uncaught exception
  error,      \* the uncaught exception, "none" while there is none
  calls,      \* how many times process_bag_files has been called
  source,     \* the keys list_objects_v2 returns for the source bucket
  files,      \* the files under DESTINATION_LOCAL_BAG (full paths)
  futures,    \* future_to_key: key -> [state, result] of the submitted download
  yielded,    \* key -> the results the generator has yielded for it
  window,     \* <<start_time, end_time>> handed to process_bag_files
  lst_files,  \* process_bag_files: the sorted list of container paths
  fl,         \* process_bag_files: position in lst_files of the file at hand
  msgs,       \* process_bag_file: what bag.read_messages has still to deliver
  pictures,   \* the tree under DESTINATION_LOCAL_PICTURES: path -> image
  bucket,     \* the destination bucket: key -> object
  todo,       \* store_files_to_s3: the files os.walk has still to reach
  num_files,  \* store_files_to_s3: the count of stored files
  log,        \* routine.log: the stage lines and the error lines of this run
  opened,     \* the files of the "Processing file" lines of this run
  decoded,    \* <<file, payload>> of every record handed to a decoder in this run
  written,    \* <<file, payload, path>> of every cv2.imwrite of this run
  stored,     \* the files of the "File ... stored" lines of this run
  prev        \* the tree the call of process_bag_files before this one left

vars == << routine, pc, error, calls, source, files, futures, yielded, window, lst_files, fl, msgs,
           pictures, bucket, todo, num_files, log, opened, decoded, written, stored, prev >>

(* ------------------------------------------------------------------ *)
(* Characters and strings                                              *)
(* ------------------------------------------------------------------ *)

\* the characters the model uses, in code-point order
Ascii ==
  << " ", "'", "(", ")", "-", ".", "/",
     "0", "1", "2", "3", "4", "5", "6", "7", "8", "9", ":", "<", ">",
     "A", "B", "C", "D", "E", "F", "G", "H", "I", "J", "K", "L", "M",
     "N", "O", "P", "Q", "R", "S", "T", "U", "V", "W", "X", "Y", "Z", "_",
     "a", "b", "c", "d", "e", "f", "g", "h", "i", "j", "k", "l", "m",
     "n", "o", "p", "q", "r", "s", "t", "u", "v", "w", "x", "y", "z" >>

Upper == << "A", "B", "C", "D", "E", "F", "G", "H", "I", "J", "K", "L", "M",
            "N", "O", "P", "Q", "R", "S", "T", "U", "V", "W", "X", "Y", "Z" >>

Lowers == << "a", "b", "c", "d", "e", "f", "g", "h", "i", "j", "k", "l", "m",
             "n", "o", "p", "q", "r", "s", "t", "u", "v", "w", "x", "y", "z" >>

Digits == << "0", "1", "2", "3", "4", "5", "6", "7", "8", "9" >>

\* ord(c)
Ord(c) == CHOOSE i \in 1..Len(Ascii) : Ascii[i] = c

\* str.lower() on one character
LowerChar(c) ==
  IF \E i \in 1..Len(Upper) : Upper[i] = c
    THEN Lowers[CHOOSE i \in 1..Len(Upper) : Upper[i] = c]
    ELSE c

\* str.lower()
Lower(s) == [i \in 1..Len(s) |-> LowerChar(s[i])]

\* s[i:] with a 0-based i, as Python slices
From(s, i) == SubSeq(s, i + 1, Len(s))

\* s.startswith(p)
StartsWith(s, p) == Len(p) <= Len(s) /\ SubSeq(s, 1, Len(p)) = p

\* s.rfind(c) as a 1-based position, 0 when c does not occur
RFind(s, c) ==
  IF \E i \in 1..Len(s) : s[i] = c
    THEN CHOOSE i \in 1..Len(s) : s[i] = c /\ \A j \in (i+1)..Len(s) : s[j] # c
    ELSE 0

\* s.find(p) as a 1-based position, 0 when p does not occur
Find(s, p) ==
  IF \E i \in 1..(Len(s) - Len(p) + 1) : SubSeq(s, i, i + Len(p) - 1) = p
    THEN CHOOSE i \in 1..(Len(s) - Len(p) + 1) :
           /\ SubSeq(s, i, i + Len(p) - 1) = p
           /\ \A j \in 1..(i-1) : SubSeq(s, j, j + Len(p) - 1) # p
    ELSE 0

\* s.replace(old, new): every non-overlapping occurrence, left to right
RECURSIVE Replace(_, _, _)
Replace(s, old, new) ==
  LET i == Find(s, old) IN
    IF i = 0 \/ old = << >> THEN s
    ELSE SubSeq(s, 1, i - 1) \o new \o Replace(SubSeq(s, i + Len(old), Len(s)), old, new)

\* s < t for Python strings: code points, left to right, a prefix is smaller
RECURSIVE StrLess(_, _)
StrLess(s, t) ==
  IF t = << >> THEN FALSE
  ELSE IF s = << >> THEN TRUE
  ELSE IF s[1] # t[1] THEN Ord(s[1]) < Ord(t[1])
  ELSE StrLess(Tail(s), Tail(t))

\* sorted(list of strings): insertion into an ascending list
RECURSIVE InsertSorted(_, _)
InsertSorted(x, l) ==
  IF l = << >> THEN << x >>
  ELSE IF StrLess(l[1], x) THEN << l[1] >> \o InsertSorted(x, Tail(l))
  ELSE << x >> \o l

RECURSIVE Sorted(_)
Sorted(l) == IF l = << >> THEN << >> ELSE InsertSorted(l[1], Sorted(Tail(l)))

\* os.path.basename
BaseName(p) == From(p, RFind(p, "/"))

\* os.path.splitext: the extension starts at the last dot of the last path
\* component, unless that dot is the component's leading character(s)
SplitExtPos(p) ==
  LET sep == RFind(p, "/")
      dot == RFind(p, ".")
  IN IF dot > sep /\ \E j \in (sep+1)..(dot-1) : p[j] # "."
       THEN dot
       ELSE Len(p) + 1

SplitExt(p) == << SubSeq(p, 1, SplitExtPos(p) - 1), SubSeq(p, SplitExtPos(p), Len(p)) >>

\* the decimal digits of a natural number, str(n)
RECURSIVE Str(_)
Str(n) == IF n < 10 THEN << Digits[n + 1] >> ELSE Str(n \div 10) \o << Digits[(n % 10) + 1] >>

\* '%02d' / '%04d': zero-padded to w digits
RECURSIVE Pad(_, _)
Pad(s, w) == IF Len(s) >= w THEN s ELSE Pad(<< "0" >> \o s, w)

\* int(text) for a string of decimal digits
DigitVal(c) == CHOOSE d \in 0..9 : Digits[d + 1] = c

RECURSIVE ParseInt(_)
ParseInt(s) ==
  IF s = << >> THEN 0
  ELSE 10 * ParseInt(SubSeq(s, 1, Len(s) - 1)) + DigitVal(s[Len(s)])

(* ------------------------------------------------------------------ *)
(* Calendar: datetime.strptime, .timestamp(), utcfromtimestamp,        *)
(* strftime, on the proleptic Gregorian calendar in UTC                *)
(* ------------------------------------------------------------------ *)

\* days from 1970-01-01 to y-m-d
DaysFromCivil(y, m, d) ==
  LET yy  == IF m <= 2 THEN y - 1 ELSE y
      era == yy \div 400
      yoe == yy - era * 400
      mp  == IF m > 2 THEN m - 3 ELSE m + 9
      doy == (153 * mp + 2) \div 5 + d - 1
      doe == yoe * 365 + yoe \div 4 - yoe \div 100 + doy
  IN era * 146097 + doe - 719468

\* <<y, m, d>> of the day that lies z days after 1970-01-01
CivilFromDays(z) ==
  LET zz  == z + 719468
      era == zz \div 146097
      doe == zz - era * 146097
      yoe == (doe - doe \div 1460 + doe \div 36524 - doe \div 146096) \div 365
      doy == doe - (365 * yoe + yoe \div 4 - yoe \div 100)
      mp  == (5 * doy + 2) \div 153
      d   == doy - (153 * mp + 2) \div 5 + 1
      m   == IF mp < 10 THEN mp + 3 ELSE mp - 9
      y   == yoe + era * 400 + (IF m <= 2 THEN 1 ELSE 0)
  IN << y, m, d >>

\* datetime.utcfromtimestamp(secs).strftime('%Y-%m-%d_%H-%M-%S')
StrfTime(secs) ==
  LET ymd == CivilFromDays(secs[1])
      sod == secs[2]
  IN Pad(Str(ymd[1]), 4) \o << "-" >> \o Pad(Str(ymd[2]), 2) \o << "-" >>
       \o Pad(Str(ymd[3]), 2) \o << "_" >>
       \o Pad(Str(sod \div 3600), 2) \o << "-" >>
       \o Pad(Str((sod % 3600) \div 60), 2) \o << "-" >>
       \o Pad(Str(sod % 60), 2)

\* datetime.strptime(s, '%Y-%m-%d %H:%M:%S').replace(tzinfo=utc).timestamp()
StrpDateTime(s) ==
  << DaysFromCivil(ParseInt(SubSeq(s, 1, 4)), ParseInt(SubSeq(s, 6, 7)), ParseInt(SubSeq(s, 9, 10))),
     3600 * ParseInt(SubSeq(s, 12, 13)) + 60 * ParseInt(SubSeq(s, 15, 16))
       + ParseInt(SubSeq(s, 18, 19)) >>

\* datetime.strptime(s, '%Y-%m-%d').replace(tzinfo=utc).timestamp()
StrpDate(s) ==
  << DaysFromCivil(ParseInt(SubSeq(s, 1, 4)), ParseInt(SubSeq(s, 6, 7)), ParseInt(SubSeq(s, 9, 10))), 0 >>

\* rospy.Time: <<secs, nsecs>>, ordered by secs then nsecs
TimeLess(a, b) ==
  \/ a[1][1] < b[1][1]
  \/ a[1][1] = b[1][1] /\ a[1][2] < b[1][2]
  \/ a[1] = b[1] /\ a[2] < b[2]

TimeLeq(a, b) == a = b \/ TimeLess(a, b)

\* rospy.Time.from_sec of a whole number of seconds
FromSec(secs) == << secs, 0 >>

(* ------------------------------------------------------------------ *)
(* Configuration of main.py                                            *)
(* ------------------------------------------------------------------ *)

SOURCE_PREFIX == << "b", "g", "/" >>
BAG_FILE_EXTENSION == << ".", "b", "a", "g" >>
DESTINATION_LOCAL_BAG == << "/", "d", "a", "t", "a", "1", "/", "s", "3" >>
DESTINATION_LOCAL_PICTURES ==
  << "/", "d", "a", "t", "a", "1", "/", "s", "3", "/", "p", "i", "c", "t", "u", "r", "e", "s" >>

ImageType == << "s", "e", "n", "s", "o", "r", "_", "m", "s", "g", "s", "/", "I", "m", "a", "g", "e" >>
CompressedImageType ==
  << "s", "e", "n", "s", "o", "r", "_", "m", "s", "g", "s", "/",
     "C", "o", "m", "p", "r", "e", "s", "s", "e", "d", "I", "m", "a", "g", "e" >>
DATA_TYPES == { ImageType, CompressedImageType }

DepthTopic ==
  << "/", "r", "e", "a", "l", "s", "e", "n", "s", "e", "_", "g", "r", "i", "p", "p", "e", "r", "/",
     "a", "l", "i", "g", "n", "e", "d", "_", "d", "e", "p", "t", "h", "_", "t", "o", "_",
     "c", "o", "l", "o", "r", "/", "i", "m", "a", "g", "e", "_", "r", "a", "w" >>
ColorTopic ==
  << "/", "r", "e", "a", "l", "s", "e", "n", "s", "e", "_", "g", "r", "i", "p", "p", "e", "r", "/",
     "c", "o", "l", "o", "r", "/", "i", "m", "a", "g", "e", "_", "r", "a", "w", "/",
     "c", "o", "m", "p", "r", "e", "s", "s", "e", "d" >>
TOPICS == << DepthTopic, ColorTopic >>

MIN_FILTER_TIME ==
  << "2", "0", "2", "3", "-", "0", "8", "-", "2", "2", " ", "1", "8", ":", "3", "3", ":", "4", "8" >>
MAX_FILTER_TIME ==
  << "2", "0", "2", "3", "-", "0", "8", "-", "2", "2", " ", "1", "8", ":", "3", "3", ":", "5", "2" >>

epoch_start == << "1", "9", "8", "0", "-", "0", "1", "-", "0", "1" >>
epoch_end == << "2", "9", "0", "0", "-", "1", "2", "-", "3", "1" >>

\* ThreadPoolExecutor(max_workers=8)
max_workers == 8

\* Python's None, for an absent start_time or end_time
None == << >>

(* ------------------------------------------------------------------ *)
(* The inputs the model draws from                                     *)
(* ------------------------------------------------------------------ *)

\* at most this many objects in the listing of the source bucket
MaxListed == 3

\* at most this many calls of process_bag_files, one after the other
MaxCalls == 2

CameraInfoType ==
  << "s", "e", "n", "s", "o", "r", "_", "m", "s", "g", "s", "/",
     "C", "a", "m", "e", "r", "a", "I", "n", "f", "o" >>
OtherTopic ==
  << "/", "u", "s", "b", "_", "c", "a", "m", "/", "i", "m", "a", "g", "e", "_", "r", "a", "w" >>

\* the day of MIN_FILTER_TIME and the seconds of that day the records use
Day == StrpDateTime(MIN_FILTER_TIME)[1]
SodMin == StrpDateTime(MIN_FILTER_TIME)[2]
SodMax == StrpDateTime(MAX_FILTER_TIME)[2]

Rec(topic, datatype, sod, nsecs, good, payload) ==
  [ topic |-> topic, datatype |-> datatype, t |-> << << Day, sod >>, nsecs >>,
    good |-> good, payload |-> payload ]

\* The objects of the source bucket: key -> container.  A container is
\* corrupt (rosbag.Bag raises on it) or a sequence of records in storage order;
\* good = FALSE marks a payload the image decoder raises on.
KeyUpperA == << "b", "g", "/", "A", ".", "B", "A", "G" >>
KeyA == << "b", "g", "/", "a", ".", "b", "a", "g" >>
KeyB == << "b", "g", "/", "b", ".", "b", "a", "g" >>
KeyC == << "b", "g", "/", "c", ".", "b", "a", "g" >>
KeyNotes == << "b", "g", "/", "n", "o", "t", "e", "s", ".", "t", "x", "t" >>

SourceKeys == { KeyUpperA, KeyA, KeyB, KeyC, KeyNotes }

Container(key) ==
  CASE key = KeyUpperA ->
         [ corrupt |-> FALSE,
           records |-> << Rec(DepthTopic, ImageType, SodMin, 0, TRUE, "A1") >> ]
    [] key = KeyA ->
         [ corrupt |-> FALSE,
           records |-> << Rec(DepthTopic, ImageType, SodMin - 1, 5, TRUE, "a1"),
                          Rec(DepthTopic, ImageType, SodMin, 0, TRUE, "a2"),
                          Rec(ColorTopic, CameraInfoType, SodMin + 2, 0, TRUE, "a3"),
                          Rec(OtherTopic, ImageType, SodMin + 2, 0, TRUE, "a4"),
                          Rec(ColorTopic, CompressedImageType, SodMax, 0, TRUE, "a5"),
                          Rec(ColorTopic, CompressedImageType, SodMax, 5, TRUE, "a6") >> ]
    [] key = KeyB -> [ corrupt |-> TRUE, records |-> << >> ]
    [] key = KeyC ->
         [ corrupt |-> FALSE,
           records |-> << Rec(ColorTopic, CompressedImageType, SodMin + 2, 0, FALSE, "c1"),
                          Rec(DepthTopic, ImageType, SodMin + 3, 0, TRUE, "c2") >> ]
    [] OTHER -> [ corrupt |-> TRUE, records |-> << >> ]

\* a file left in the output tree, and an object left in the destination
\* bucket, by an earlier use of the machine
StalePicture ==
  DESTINATION_LOCAL_PICTURES
    \o << "/", "o", "l", "d", "/", "I", "m", "a", "g", "e", "/", "s", "t", "a", "l", "e", ".", "p", "n", "g" >>
OldObject == << "o", "l", "d", "/", "I", "m", "a", "g", "e", "/", "g", "o", "n", "e", ".", "p", "n", "g" >>
LocalNotes == DESTINATION_LOCAL_BAG \o << "/" >> \o KeyNotes

WindowChoices == { None, MIN_FILTER_TIME, MAX_FILTER_TIME }

(* ------------------------------------------------------------------ *)
(* The functions of main.py                                            *)
(* ------------------------------------------------------------------ *)

get_file_extension(file_name) == Lower(SplitExt(file_name)[2])

get_file_name(file_name) == Lower(SplitExt(file_name)[1])

\* download_object: PurePath(DESTINATION_LOCAL_BAG, file_name)
download_path(file_name) == DESTINATION_LOCAL_BAG \o << "/" >> \o file_name

\* the container a local file holds: the object it was downloaded from
BagOf(path) == Container(From(path, Len(DESTINATION_LOCAL_BAG) + 1))

\* a filter that admits every connection
filter_admits_all(datatype) == TRUE

filter_image_msgs(datatype) == datatype \in DATA_TYPES

\* str(type(msg)) of a message read from a bag: rosbag generates the class
\* _<package>__<name> of a declared type <package>/<name> in a temporary module
TypeRepr(declared) ==
  << "<", "c", "l", "a", "s", "s", " ", "'", "t", "m", "p", ".", "_" >>
    \o Replace(declared, << "/" >>, << "_", "_" >>) \o << "'", ">" >>

\* s.split(sep)[1]: what lies between the first sep and the next one
SplitSecond(s, sep) ==
  LET rest == SubSeq(s, Find(s, sep) + Len(sep), Len(s))
      nxt  == Find(rest, sep)
  IN IF nxt = 0 THEN rest ELSE SubSeq(rest, 1, nxt - 1)

\* process_bag_file: datatype = (str(type(msg)).split('__')[1])[:-2]
MsgDatatype(declared) ==
  LET part == SplitSecond(TypeRepr(declared), << "_", "_" >>)
  IN SubSeq(part, 1, Len(part) - 2)

\* bag.read_messages(topics, start_time, end_time, connection_filter): the
\* records, in storage order, of the connections the filter admits, on the
\* topics asked for (every topic when topics is None or empty), with
\* start_time <= t <= end_time
Admitted(rec, topics, start_time, end_time) ==
  /\ filter_image_msgs(rec.datatype)
  /\ (topics = None \/ \E i \in DOMAIN topics : topics[i] = rec.topic)
  /\ TimeLeq(start_time, rec.t)
  /\ TimeLeq(rec.t, end_time)

read_messages(records, topics, start_time, end_time) ==
  SelectSeq(records, LAMBDA rec : Admitted(rec, topics, start_time, end_time))

\* process_bag_files: the window bounds as rospy.Time
start_timestamp(start_time) ==
  FromSec(IF start_time = None THEN StrpDate(epoch_start) ELSE StrpDateTime(start_time))

end_timestamp(end_time) ==
  FromSec(IF end_time = None THEN StrpDate(epoch_end) ELSE StrpDateTime(end_time))

\* the comparison the wrong way round
InvalidWindowReversed(start_ts, end_ts) == TimeLess(start_ts, end_ts)

\* process_bag_files: if start_timestamp > end_timestamp
InvalidWindow(start_ts, end_ts) == TimeLess(end_ts, start_ts)

\* process_bag_file: folder_name_suffix
folder_name_suffix(start_ts, end_ts) == StrfTime(start_ts[1]) \o << "_" >> \o StrfTime(end_ts[1])

\* a name that also carries the number of the call
out_file_name_numbered(file_name, time_stamp) ==
  StrfTime(time_stamp[1]) \o << "-" >> \o Str(time_stamp[2])
    \o << "(" >> \o get_file_name(BaseName(file_name)) \o << ")" >> \o Str(calls)

\* process_bag_message: out_file_name
out_file_name(file_name, time_stamp) ==
  StrfTime(time_stamp[1]) \o << "-" >> \o Str(time_stamp[2])
    \o << "(" >> \o get_file_name(BaseName(file_name)) \o << ")" >>

\* process_bag_message: out_dir_name
out_dir_name(topic, datatype, suffix) ==
  DESTINATION_LOCAL_PICTURES \o << "/" >> \o Replace(From(topic, 1), << "/" >>, << "_" >>)
    \o << "/" >> \o datatype \o << "/" >> \o suffix \o << "/" >>

\* process_bag_message: the path handed to cv2.imwrite
out_path(file_name, topic, datatype, time_stamp, suffix) ==
  out_dir_name(topic, datatype, suffix) \o out_file_name(file_name, time_stamp)
    \o << ".", "p", "n", "g" >>

\* process_bag_message: which decoder the datatype selects, "none" when the
\* if/elif chain binds no img
Decoder(datatype) ==
  IF datatype = << "I", "m", "a", "g", "e" >> THEN "message_to_cvimage"
  ELSE IF datatype = << "C", "o", "m", "p", "r", "e", "s", "s", "e", "d", "I", "m", "a", "g", "e" >>
    THEN "compressed_image_to_cvimage"
  ELSE "none"

\* cv2.imwrite(path, img) on a tree of files: the file is created or replaced
imwrite(tree, path, img) ==
  [ p \in DOMAIN tree \cup { path } |-> IF p = path THEN img ELSE tree[p] ]

\* process_bag_files: the sorted list of the .bag entries of a listing
bag_files(path_to_files, listing) ==
  Sorted(SelectSeq([ i \in DOMAIN listing |-> path_to_files \o listing[i] ],
                   LAMBDA f : get_file_extension(f) = BAG_FILE_EXTENSION))

\* store_files_to_s3: object_to_store
object_to_store(file_to_store) ==
  Replace(file_to_store, DESTINATION_LOCAL_PICTURES \o << "/" >>, << >>)

\* os.listdir(dir) in one of the orders the file system may return
Entries(paths, dir) ==
  { From(p, Len(dir)) : p \in { q \in paths : StartsWith(q, dir) /\ RFind(From(q, Len(dir)), "/") = 0 } }

Listings(S) ==
  { l \in [ 1..Cardinality(S) -> S ] : \A i, j \in DOMAIN l : l[i] = l[j] => i = j }

(* ------------------------------------------------------------------ *)
(* Initial states                                                      *)
(* ------------------------------------------------------------------ *)

env == << routine, source >>
downloadVars == << futures, yielded >>
processVars == << window, lst_files, fl, msgs, opened, decoded, written >>
storeVars == << bucket, todo, num_files, stored >>

EmptyTree == [ p \in { } |-> "" ]

path_to_files == DESTINATION_LOCAL_BAG \o << "/" >> \o SOURCE_PREFIX

\* the keys download_parallel_multithreading submits a download for
BagKeys(keys) == { k \in keys : get_file_extension(k) = BAG_FILE_EXTENSION }

NoPrev == [ ran |-> FALSE, written |-> << >>, pictures |-> EmptyTree ]

\* A machine never used, or one used before: a stray file beside the
\* containers, a picture in the output tree, an object in the destination bucket.
Init ==
  /\ routine = TRUE
  /\ pc = "list"
  /\ error = "none"
  /\ calls = 0
  /\ source \in { S \in SUBSET SourceKeys : Cardinality(S) <= MaxListed }
  /\ \E used \in BOOLEAN :
       /\ files = IF used THEN { LocalNotes } ELSE { }
       /\ pictures = IF used THEN [ p \in { StalePicture } |-> "stale" ] ELSE EmptyTree
       /\ bucket = IF used THEN [ k \in { OldObject } |-> "old" ] ELSE EmptyTree
  /\ futures = EmptyTree
  /\ yielded = EmptyTree
  /\ window = << None, None >>
  /\ lst_files = << >>
  /\ fl = 1
  /\ msgs = << >>
  /\ todo = { }
  /\ num_files = 0
  /\ log = << "Routine started" >>
  /\ opened = << >>
  /\ decoded = << >>
  /\ written = << >>
  /\ stored = { }
  /\ prev = NoPrev

\* process_bag_files called on its own: the directory holds what earlier
\* downloads of some of the source objects left there
InitProcess ==
  /\ routine = FALSE
  /\ pc = "validate"
  /\ error = "none"
  /\ calls = 0
  /\ source = { }
  /\ \E used \in BOOLEAN, S \in { S \in SUBSET SourceKeys : Cardinality(S) <= MaxListed } :
       /\ files = { download_path(k) : k \in BagKeys(S) }
                    \cup (IF used THEN { LocalNotes } ELSE { })
       /\ pictures = IF used THEN [ p \in { StalePicture } |-> "stale" ] ELSE EmptyTree
       /\ bucket = IF used THEN [ k \in { OldObject } |-> "old" ] ELSE EmptyTree
  /\ futures = EmptyTree
  /\ yielded = EmptyTree
  /\ window = << None, None >>
  /\ lst_files = << >>
  /\ fl = 1
  /\ msgs = << >>
  /\ todo = { }
  /\ num_files = 0
  /\ log = << >>
  /\ opened = << >>
  /\ decoded = << >>
  /\ written = << >>
  /\ stored = { }
  /\ prev = NoPrev

(* ------------------------------------------------------------------ *)
(* download_parallel_multithreading, driven by start_routine's loop    *)
(* ------------------------------------------------------------------ *)

\* obj_list['Contents'] of an empty listing: the response has no such key
ListEmpty ==
  /\ pc = "list"
  /\ source = { }
  /\ pc' = "crashed"
  /\ error' = "KeyError"
  /\ UNCHANGED << calls, env, files, downloadVars, processVars, pictures, storeVars, log, prev >>

\* list_objects_v2, then one executor.submit for every key with the extension
Submit ==
  /\ pc = "list"
  /\ source # { }
  /\ futures' = [ k \in BagKeys(source) |-> [ state |-> "queued", result |-> "" ] ]
  /\ yielded' = [ k \in BagKeys(source) |-> << >> ]
  /\ pc' = "download"
  /\ UNCHANGED << error, calls, env, files, processVars, pictures, storeVars, log, prev >>

Running == { k \in DOMAIN futures : futures[k].state = "running" }

\* a free worker of the pool takes a queued download
WorkerStart(k) ==
  /\ pc = "download"
  /\ futures[k].state = "queued"
  /\ Cardinality(Running) < max_workers
  /\ futures' = [ futures EXCEPT ![k].state = "running" ]
  /\ UNCHANGED << pc, error, calls, env, files, yielded, processVars, pictures, storeVars, log, prev >>

\* download_object returns "Success" with the file in place, or raises
WorkerFinish(k) ==
  /\ pc = "download"
  /\ futures[k].state = "running"
  /\ \/ /\ futures' = [ futures EXCEPT ![k] = [ state |-> "done", result |-> "Success" ] ]
        /\ files' = files \cup { download_path(k) }
     \/ /\ futures' = [ futures EXCEPT ![k] = [ state |-> "done", result |-> "exception" ] ]
        /\ files' = files
  /\ UNCHANGED << pc, error, calls, env, yielded, processVars, pictures, storeVars, log, prev >>

\* as_completed hands over a finished future; the generator yields its key
\* with the result or the exception, and start_routine logs the pair
Yield(k) ==
  /\ pc = "download"
  /\ futures[k].state = "done"
  /\ yielded' = [ yielded EXCEPT ![k] = Append(@, futures[k].result) ]
  /\ futures' = [ futures EXCEPT ![k].state = "yielded" ]
  /\ UNCHANGED << pc, error, calls, env, files, processVars, pictures, storeVars, log, prev >>

\* as_completed is exhausted: the loop of start_routine ends
DownloadDone ==
  /\ pc = "download"
  /\ \A k \in DOMAIN futures : futures[k].state = "yielded"
  /\ pc' = "validate"
  /\ UNCHANGED << error, calls, env, files, downloadVars, processVars, pictures, storeVars,
                  log, prev >>

(* ------------------------------------------------------------------ *)
(* process_bag_files                                                   *)
(* ------------------------------------------------------------------ *)

\* process_bag_files up to its loop: the window is parsed and checked, the
\* directory is listed, filtered and sorted.  start_time and end_time are the
\* configured strings, or None; a repeated call is made with the same ones.
Validate ==
  /\ pc = "validate"
  /\ calls' = calls + 1
  /\ \E start_time \in WindowChoices, end_time \in WindowChoices :
       /\ prev.ran => << start_time, end_time >> = window
       /\ window' = << start_time, end_time >>
       /\ IF InvalidWindow(start_timestamp(start_time), end_timestamp(end_time))
            THEN /\ log' = log \o << "Processing bag files started",
                                     "error: Start filter time is greater than End filter time" >>
                 /\ pc' = "return"
                 /\ UNCHANGED << lst_files, fl >>
            ELSE /\ \E listing \in Listings(Entries(files, path_to_files)) :
                      lst_files' = bag_files(path_to_files, listing)
                 /\ fl' = 1
                 /\ pc' = "open"
                 /\ log' = Append(log, "Processing bag files started")
  /\ UNCHANGED << error, env, files, downloadVars, msgs, opened, decoded, written,
                  pictures, storeVars, prev >>

\* process_bag_file up to its loop: the "Processing file" line, then
\* rosbag.Bag(file_name, 'r'), which raises on a corrupt container; nothing
\* catches the exception
OpenFile ==
  /\ pc = "open"
  /\ fl <= Len(lst_files)
  /\ opened' = Append(opened, lst_files[fl])
  /\ IF BagOf(lst_files[fl]).corrupt
       THEN /\ pc' = "crashed"
            /\ error' = "ROSBagException"
            /\ msgs' = msgs
       ELSE /\ pc' = "read"
            /\ error' = error
            /\ msgs' = read_messages(BagOf(lst_files[fl]).records, TOPICS,
                                     start_timestamp(window[1]), end_timestamp(window[2]))
  /\ UNCHANGED << calls, env, files, downloadVars, window, lst_files, fl, decoded, written,
                  pictures, storeVars, log, prev >>

\* one turn of the loop of process_bag_file: process_bag_message on the next
\* record the reader delivers.  A decoder that raises, or a datatype for which
\* no img is bound, ends the routine: nothing catches the exception.
ProcessMessage ==
  /\ pc = "read"
  /\ msgs # << >>
  /\ LET file_name == lst_files[fl]
         rec       == Head(msgs)
         datatype  == MsgDatatype(rec.datatype)
         suffix    == folder_name_suffix(start_timestamp(window[1]), end_timestamp(window[2]))
         path      == out_path(file_name, rec.topic, datatype, rec.t, suffix)
     IN IF Decoder(datatype) = "none"
          THEN /\ pc' = "crashed"
               /\ error' = "UnboundLocalError"
               /\ UNCHANGED << msgs, decoded, written, pictures >>
          ELSE /\ decoded' = Append(decoded, << file_name, rec.payload >>)
               /\ IF rec.good
                    THEN /\ pictures' = imwrite(pictures, path, << Decoder(datatype), rec.payload >>)
                         /\ written' = Append(written, << file_name, rec.payload, path >>)
                         /\ msgs' = Tail(msgs)
                         /\ UNCHANGED << pc, error >>
                    ELSE /\ pc' = "crashed"
                         /\ error' = "DecodeError"
                         /\ UNCHANGED << msgs, written, pictures >>
  /\ UNCHANGED << calls, env, files, downloadVars, window, lst_files, fl, opened,
                  storeVars, log, prev >>

\* the reader is exhausted: bag.close(), and the loop of process_bag_files
\* goes to the next file
CloseFile ==
  /\ pc = "read"
  /\ msgs = << >>
  /\ fl' = fl + 1
  /\ pc' = "open"
  /\ UNCHANGED << error, calls, env, files, downloadVars, window, lst_files, msgs, opened,
                  decoded, written, pictures, storeVars, log, prev >>

\* the loop of process_bag_files ends: process_bag_files returns
ProcessReturn ==
  /\ pc = "open"
  /\ fl > Len(lst_files)
  /\ pc' = "return"
  /\ UNCHANGED << error, calls, env, files, downloadVars, processVars, pictures, storeVars,
                  log, prev >>

(* ------------------------------------------------------------------ *)
(* store_files_to_s3                                                   *)
(* ------------------------------------------------------------------ *)

\* no delete: the objects stay
delete_none(objects) == objects

\* bucket.objects.all().delete()
delete_all(objects) == EmptyTree

\* upload_file_to_s3: the except clause catches botocore's ClientError alone
Caught(exception) == exception = "ClientError"

\* what b3_client.upload_file may do: return, raise ClientError, or raise an
\* exception of another class (boto3's S3UploadFailedError, an OSError, ...)
UploadOutcomes == { "ok", "ClientError", "S3UploadFailedError" }

\* store_files_to_s3 up to its loop: the bucket is emptied
Wipe ==
  /\ pc = "return"
  /\ routine
  /\ log' = Append(log, "Storing files to s3 store started")
  /\ bucket' = delete_all(bucket)
  /\ todo' = DOMAIN pictures
  /\ num_files' = 0
  /\ pc' = "upload"
  /\ UNCHANGED << error, calls, env, files, downloadVars, processVars, pictures, stored, prev >>

\* one turn of the loops over os.walk: upload_file_to_s3 on the next file,
\* in whatever order the file system hands the files over
Upload(file_to_store) ==
  /\ pc = "upload"
  /\ file_to_store \in todo
  /\ \E outcome \in UploadOutcomes :
       IF outcome = "ok"
         THEN /\ bucket' = imwrite(bucket, object_to_store(file_to_store), pictures[file_to_store])
              /\ num_files' = num_files + 1
              /\ stored' = stored \cup { file_to_store }
              /\ todo' = todo \ { file_to_store }
              /\ UNCHANGED << pc, error, log >>
         ELSE IF Caught(outcome)
           THEN /\ log' = Append(log, "error: upload")
                /\ todo' = todo \ { file_to_store }
                /\ UNCHANGED << pc, error, bucket, num_files, stored >>
           ELSE /\ pc' = "crashed"
                /\ error' = outcome
                /\ UNCHANGED << bucket, num_files, stored, todo, log >>
  /\ UNCHANGED << calls, env, files, downloadVars, processVars, pictures, prev >>

\* os.walk is exhausted: store_files_to_s3 returns, start_routine ends
StoreReturn ==
  /\ pc = "upload"
  /\ todo = { }
  /\ pc' = "finished"
  /\ log' = Append(log, "Routine finished")
  /\ UNCHANGED << error, calls, env, files, downloadVars, processVars, pictures, storeVars, prev >>

(* ------------------------------------------------------------------ *)
(* process_bag_files called on its own, and called again               *)
(* ------------------------------------------------------------------ *)

\* process_bag_files has returned or raised, and its caller calls it again
\* with the same arguments, on the same directory
CallAgain ==
  /\ ~ routine
  /\ pc \in { "return", "crashed" }
  /\ calls < MaxCalls
  /\ prev' = [ ran |-> TRUE, written |-> written, pictures |-> pictures ]
  /\ pc' = "validate"
  /\ error' = "none"
  /\ lst_files' = << >>
  /\ fl' = 1
  /\ msgs' = << >>
  /\ opened' = << >>
  /\ decoded' = << >>
  /\ written' = << >>
  /\ UNCHANGED << calls, env, files, downloadVars, window, pictures, storeVars, log >>

\* start_routine, from its first line
Next ==
  \/ ListEmpty
  \/ Submit
  \/ \E k \in DOMAIN futures : WorkerStart(k)
  \/ \E k \in DOMAIN futures : WorkerFinish(k)
  \/ \E k \in DOMAIN futures : Yield(k)
  \/ DownloadDone
  \/ Validate
  \/ OpenFile
  \/ ProcessMessage
  \/ CloseFile
  \/ ProcessReturn
  \/ Wipe
  \/ \E file_to_store \in todo : Upload(file_to_store)
  \/ StoreReturn

Spec == Init /\ [][Next]_vars

\* process_bag_files alone, on a directory that downloads have filled
NextProcess ==
  \/ Validate
  \/ OpenFile
  \/ ProcessMessage
  \/ CloseFile
  \/ ProcessReturn
  \/ CallAgain

SpecProcess == InitProcess /\ [][NextProcess]_vars

(* ------------------------------------------------------------------ *)
(* Vocabulary of the properties                                        *)
(* ------------------------------------------------------------------ *)

\* the elements of a sequence
Range(q) == { q[i] : i \in DOMAIN q }

\* the call of process_bag_files at hand has ended, by a return or an exception
ProcessEnded == calls > 0 /\ pc \notin { "validate", "open", "read" }

\* the window of the call has its start after its end.  Both bounds have the
\* form YYYY-MM-DD HH:MM:SS, which orders as the instants do; an absent bound
\* is the far past or the far future and is never on the wrong side.
StartAfterEnd == window[1] # None /\ window[2] # None /\ StrLess(window[2], window[1])

\* the instant of a window bound and of a record, as <<day, second, nanosecond>>
StartInstant == IF window[1] = None THEN << StrpDate(epoch_start)[1], 0, 0 >>
                ELSE << StrpDateTime(window[1])[1], StrpDateTime(window[1])[2], 0 >>
EndInstant == IF window[2] = None THEN << StrpDate(epoch_end)[1], 0, 0 >>
              ELSE << StrpDateTime(window[2])[1], StrpDateTime(window[2])[2], 0 >>
Instant(rec) == << rec.t[1][1], rec.t[1][2], rec.t[2] >>

NotAfter(a, b) ==
  \/ a[1] < b[1]
  \/ a[1] = b[1] /\ a[2] < b[2]
  \/ a[1] = b[1] /\ a[2] = b[2] /\ a[3] <= b[3]

InWindow(rec) == NotAfter(StartInstant, Instant(rec)) /\ NotAfter(Instant(rec), EndInstant)

AllowedType(rec) == rec.datatype = ImageType \/ rec.datatype = CompressedImageType

AllowedChannel(rec) == rec.topic = DepthTopic \/ rec.topic = ColorTopic

\* the record of a container file with a given payload, and its position
RecordOf(file, payload) ==
  CHOOSE rec \in Range(BagOf(file).records) : rec.payload = payload

PositionOf(file, payload) ==
  CHOOSE i \in DOMAIN BagOf(file).records : BagOf(file).records[i].payload = payload

\* the container files of the input directory, by the extension of their name
ContainerFiles ==
  { f \in files : StartsWith(f, path_to_files) /\ Len(f) >= 4
                   /\ Lower(SubSeq(f, Len(f) - 3, Len(f))) = BAG_FILE_EXTENSION }

WasDecoded(file, rec) == << file, rec.payload >> \in Range(decoded)

WasWritten(file, rec) == \E w \in Range(written) : w[1] = file /\ w[2] = rec.payload

ConfigErrorLine == "error: Start filter time is greater than End filter time"

(* ------------------------------------------------------------------ *)
(* C1                                                                  *)
(* ------------------------------------------------------------------ *)

\* C1: when process_bag_files is called with a window whose start is after
\* its end, it logs the configuration error, once, and processes nothing: no
\* container is opened, no record is handed to a decoder, no image is written,
\* and the call is never inside the loop over the files.
C1_WindowValidation ==
  (calls > 0 /\ StartAfterEnd) =>
     /\ Cardinality({ i \in DOMAIN log : log[i] = ConfigErrorLine }) = 1
     /\ opened = << >>
     /\ decoded = << >>
     /\ written = << >>
     /\ lst_files = << >>
     /\ pc \notin { "open", "read" }

\* a run that ended after an invalid window, on a directory that held the
\* container a.bag, whose records a valid window would have extracted
C1_Witness ==
  /\ pc = "finished"
  /\ StartAfterEnd
  /\ download_path(KeyA) \in files

(* ------------------------------------------------------------------ *)
(* C5                                                                  *)
(* ------------------------------------------------------------------ *)

\* C5: no record whose declared type is outside DATA_TYPES is handed to a
\* decoder or written, and such a record is passed over in silence: no
\* exception comes of it (process_bag_message never finds a datatype it has
\* no decoder for), and the reader goes on, so that once a container is
\* closed every allowed, well-formed record of the window that lies behind a
\* record of another type has been written.
C5_TypeFiltering ==
  /\ \A d \in Range(decoded) : AllowedType(RecordOf(d[1], d[2]))
  /\ \A w \in Range(written) : AllowedType(RecordOf(w[1], w[2]))
  /\ error # "UnboundLocalError"
  /\ \A i \in DOMAIN lst_files :
       (i < fl /\ pc # "crashed") =>
          \A m, n \in DOMAIN BagOf(lst_files[i]).records :
             LET other == BagOf(lst_files[i]).records[m]
                 rec   == BagOf(lst_files[i]).records[n]
             IN (m < n /\ ~ AllowedType(other) /\ InWindow(other) /\ AllowedChannel(other)
                   /\ AllowedType(rec) /\ AllowedChannel(rec) /\ InWindow(rec))
                  => WasWritten(lst_files[i], rec)

\* a.bag has been read to its end under a window that holds its CameraInfo
\* record a3, which sits on an allowed channel between the images a2 and a5:
\* both images were written
C5_Witness ==
  /\ \E i \in DOMAIN lst_files : i < fl /\ lst_files[i] = download_path(KeyA)
  /\ WasWritten(download_path(KeyA), RecordOf(download_path(KeyA), "a2"))
  /\ WasWritten(download_path(KeyA), RecordOf(download_path(KeyA), "a5"))
  /\ InWindow(RecordOf(download_path(KeyA), "a3"))
  /\ ~ WasDecoded(download_path(KeyA), RecordOf(download_path(KeyA), "a3"))

(* ------------------------------------------------------------------ *)
(* C8                                                                  *)
(* ------------------------------------------------------------------ *)

\* C8: when process_bag_files is called again with the same arguments on the
\* same directory, it writes the same records to the same paths as the call
\* before, and leaves the output tree as that call left it: the same files,
\* each with the same content, none added.
C8_Idempotence ==
  (prev.ran /\ ProcessEnded) =>
     /\ written = prev.written
     /\ DOMAIN pictures = DOMAIN prev.pictures
     /\ pictures = prev.pictures

\* a second call has returned after writing at least two images
C8_Witness ==
  /\ prev.ran
  /\ pc = "return"
  /\ Len(written) >= 2

(* ------------------------------------------------------------------ *)
(* C10                                                                 *)
(* ------------------------------------------------------------------ *)

StageLines ==
  << "Routine started", "Processing bag files started",
     "Storing files to s3 store started", "Routine finished" >>

\* the stage lines of the log, in the order written
Stages == SelectSeq(log, LAMBDA line : line \in Range(StageLines))

\* the key under which a file of the output tree is stored: its path below
\* DESTINATION_LOCAL_PICTURES
KeyOf(file) == From(file, Len(DESTINATION_LOCAL_PICTURES) + 1)

UploadFailed == \E i \in DOMAIN log : log[i] = "error: upload"

\* C10: in start_routine the stages begin in the order download, process,
\* store: process_bag_files is not entered before every download has been
\* yielded, and the stage lines of the log are a prefix of StageLines.  Once
\* process_bag_files has returned, store_files_to_s3 is what runs next, also
\* after the early return on an invalid window.  Every object the bucket holds
\* once the store has begun was uploaded by this run from the local tree, so
\* what the bucket held before is gone; a run that finishes without a failed
\* upload leaves in the bucket exactly the files of the local tree.
C10_StoreAlwaysRuns ==
  routine =>
    /\ Stages = SubSeq(StageLines, 1, Len(Stages))
    /\ pc \notin { "list", "download" } /\ error # "KeyError" =>
         /\ DOMAIN futures = { k \in source : get_file_extension(k) = BAG_FILE_EXTENSION }
         /\ \A k \in DOMAIN futures : futures[k].state = "yielded"
    /\ calls > 0 => Len(Stages) >= 2
    /\ pc = "return" => ENABLED Wipe
    /\ pc \in { "upload", "finished" } => Len(Stages) >= 3 /\ ProcessEnded
    /\ Len(Stages) >= 3 =>
         /\ \A k \in DOMAIN bucket :
              \E f \in stored : k = KeyOf(f) /\ bucket[k] = pictures[f]
         /\ \A f \in stored : KeyOf(f) \in DOMAIN bucket
    /\ (pc = "finished" /\ ~ UploadFailed) =>
         DOMAIN bucket = { KeyOf(f) : f \in DOMAIN pictures }

\* a run on a used machine has finished after an invalid window: the bucket
\* holds the stale picture of the local tree and no longer the old object
C10_Witness ==
  /\ routine
  /\ pc = "finished"
  /\ StartAfterEnd
  /\ StalePicture \in DOMAIN pictures
  /\ DOMAIN bucket = { KeyOf(StalePicture) }

(* ------------------------------------------------------------------ *)
(* C2, C3: what an error takes with it                                 *)
(* ------------------------------------------------------------------ *)

\* every allowed, well-formed record of the window that a container holds
\* has been written
FullyProcessed(file) ==
  \A rec \in Range(BagOf(file).records) :
     (AllowedType(rec) /\ AllowedChannel(rec) /\ InWindow(rec) /\ rec.good)
       => WasWritten(file, rec)

\* C2: when the call of process_bag_files has ended and one of the containers
\* it opened was corrupt, every other container file of the directory has
\* been opened and processed fully.
C2_FileFailureIsolated ==
  (ProcessEnded /\ \E bad \in Range(opened) : BagOf(bad).corrupt) =>
     \A f \in ContainerFiles :
        ~ BagOf(f).corrupt => (f \in Range(opened) /\ FullyProcessed(f))

\* C3: when the call of process_bag_files has ended and a decoder has raised
\* on a record, every allowed, well-formed record of the window that lies
\* behind it in the same container has been written, and so have those of
\* the container files that follow.
C3_DecodeFailureIsolated ==
  ProcessEnded =>
    \A d \in Range(decoded) :
       ~ RecordOf(d[1], d[2]).good =>
          /\ \A n \in DOMAIN BagOf(d[1]).records :
               LET rec == BagOf(d[1]).records[n]
               IN (PositionOf(d[1], d[2]) < n /\ AllowedType(rec) /\ AllowedChannel(rec)
                     /\ InWindow(rec) /\ rec.good)
                    => WasWritten(d[1], rec)
          /\ \A f \in ContainerFiles :
               (StrLess(d[1], f) /\ ~ BagOf(f).corrupt) => FullyProcessed(f)

(* ------------------------------------------------------------------ *)
(* C4                                                                  *)
(* ------------------------------------------------------------------ *)

\* no record outside the window is handed to a decoder or written
TimeFilterExcludes ==
  /\ \A d \in Range(decoded) : InWindow(RecordOf(d[1], d[2]))
  /\ \A w \in Range(written) : InWindow(RecordOf(w[1], w[2]))

\* what the reader has delivered and has still to deliver of the container at
\* hand are, in storage order, its allowed records of the window
TimeFilterAdmits ==
  pc = "read" =>
    LET file      == lst_files[fl]
        delivered == SelectSeq(decoded, LAMBDA d : d[1] = file)
        payloads  == [ i \in DOMAIN delivered |-> delivered[i][2] ]
                       \o [ i \in DOMAIN msgs |-> msgs[i].payload ]
        expected  == SelectSeq(BagOf(file).records,
                               LAMBDA rec : AllowedType(rec) /\ AllowedChannel(rec) /\ InWindow(rec))
    IN payloads = [ i \in DOMAIN expected |-> expected[i].payload ]

\* C4: no record outside the window is decoded or written, and when the call
\* of process_bag_files has ended, every well-formed record of the window
\* with an allowed type and channel, in every readable container file of the
\* directory, has been decoded and written.
C4_TimeFiltering ==
  /\ TimeFilterExcludes
  /\ (ProcessEnded /\ ~ StartAfterEnd) =>
        \A f \in ContainerFiles : ~ BagOf(f).corrupt => FullyProcessed(f)

(* ------------------------------------------------------------------ *)
(* C6                                                                  *)
(* ------------------------------------------------------------------ *)

\* the files are opened in ascending order of path, each a container file of
\* the directory, none passed over: what is opened is the start of the
\* ascending list of the container files
OpenedInOrder ==
  /\ \A i, j \in DOMAIN opened : i < j => StrLess(opened[i], opened[j])
  /\ Range(opened) \subseteq ContainerFiles
  /\ \A f \in ContainerFiles :
       (\E g \in Range(opened) : StrLess(f, g)) => f \in Range(opened)

\* the records are handled file by file: a record of a file is never handled
\* after a record of a file opened later, and only the file opened last is read
OneFileAtATime ==
  /\ \A i, j \in DOMAIN decoded : i < j => ~ StrLess(decoded[j][1], decoded[i][1])
  /\ \A d \in Range(decoded) : d[1] \in Range(opened)
  /\ pc = "read" => lst_files[fl] = opened[Len(opened)]

\* C6: process_bag_files processes the container files of the directory in
\* ascending order of path, one at a time, and when it has ended (the window
\* being valid) the files it has processed are exactly the container files.
C6_SortedSequential ==
  /\ OpenedInOrder
  /\ OneFileAtATime
  /\ (ProcessEnded /\ ~ StartAfterEnd) => Range(opened) = ContainerFiles

(* ------------------------------------------------------------------ *)
(* C7                                                                  *)
(* ------------------------------------------------------------------ *)

\* C7: two writes of one call that come from records differing in source
\* file, channel or timestamp go to different paths.
C7_DistinctPaths ==
  \A i, j \in DOMAIN written :
     LET a == RecordOf(written[i][1], written[i][2])
         b == RecordOf(written[j][1], written[j][2])
     IN (written[i][1] # written[j][1] \/ a.topic # b.topic \/ a.t # b.t)
          => written[i][3] # written[j][3]

(* ------------------------------------------------------------------ *)
(* C9                                                                  *)
(* ------------------------------------------------------------------ *)

\* whatever the order in which the workers start and finish, the generator
\* yields for each listed key with the container extension one pair and no
\* more, and has yielded one for each when the loop of start_routine ends
DownloadYieldsOnce ==
  /\ \A k \in DOMAIN yielded :
       /\ k \in source /\ get_file_extension(k) = BAG_FILE_EXTENSION
       /\ Len(yielded[k]) <= 1
       /\ \A i \in DOMAIN yielded[k] : yielded[k][i] \in { "Success", "exception" }
  /\ (routine /\ pc \notin { "list", "download" } /\ error # "KeyError") =>
       \A k \in source :
          get_file_extension(k) = BAG_FILE_EXTENSION
            => (k \in DOMAIN yielded /\ Len(yielded[k]) = 1)

\* C9: the generator yields exactly one pair for every listed key with the
\* container extension, and a failed upload never ends store_files_to_s3
\* with another file of the tree still to be uploaded.
C9_TransferErrorsPerItem ==
  /\ DownloadYieldsOnce
  /\ ~ (pc = "crashed" /\ error \in UploadOutcomes /\ Cardinality(todo) >= 2)

====
